---- MODULE Spec2Model ----
(***************************************************************************)
(* Model of the streaming core of clamav-api-sdk-node:                     *)
(*   - chunkStream            (src/utils/stream.ts)                        *)
(*   - sendStreamChunks       (src/grpc/client.ts)                         *)
(*   - ClamAVGrpcClient.scanMultiple (src/grpc/client.ts)                  *)
(*                                                                         *)
(* A Buffer is a finite sequence of bytes.  It is represented run-length   *)
(* encoded: a sequence of runs <<byte, count>> with count >= 1 and no two  *)
(* adjacent runs of the same byte.  The representation is canonical, so    *)
(* two Buffers hold the same bytes in the same order iff they are equal.   *)
(* This keeps CHUNK_SIZE at its real value of 64 KiB.                      *)
(***************************************************************************)
EXTENDS Integers, Sequences, FiniteSets, TLC

\* ------------------------------------------------------------------------
\* Bounds of the model
\* ------------------------------------------------------------------------
\* longest fragment sequence of a byte source
MaxFrags == 3
\* most frames one chunkStream run may yield (caps the runs that never end)
MaxFrames == 4
\* most files passed to one scanMultiple call
MaxFiles == 2
\* most responses the remote side emits on one exchange
MaxResults == 2

\* ------------------------------------------------------------------------
\* Node Buffer operations used by the code
\* ------------------------------------------------------------------------
\* Buffer.alloc(n, b): n bytes of value b
Bytes(b, n) == IF n <= 0 THEN << >> ELSE << <<b, n>> >>

\* buf.length
RECURSIVE BufLen(_)
BufLen(buf) == IF buf = << >> THEN 0 ELSE buf[1][2] + BufLen(Tail(buf))

\* concatenation of two Buffers
Concat2(a, b) ==
  IF a = << >> THEN b
  ELSE IF b = << >> THEN a
  ELSE IF a[Len(a)][1] = b[1][1]
       THEN SubSeq(a, 1, Len(a) - 1)
              \o << <<b[1][1], a[Len(a)][2] + b[1][2]>> >> \o Tail(b)
       ELSE a \o b

\* Buffer.concat(list)
RECURSIVE BufferConcat(_)
BufferConcat(list) ==
  IF list = << >> THEN << >> ELSE Concat2(list[1], BufferConcat(Tail(list)))

\* the first k bytes of buf
RECURSIVE Take(_, _)
Take(buf, k) ==
  IF k <= 0 \/ buf = << >> THEN << >>
  ELSE IF buf[1][2] <= k
       THEN Concat2(<< buf[1] >>, Take(Tail(buf), k - buf[1][2]))
       ELSE << <<buf[1][1], k>> >>

\* buf without its first k bytes
RECURSIVE Drop(_, _)
Drop(buf, k) ==
  IF k <= 0 \/ buf = << >> THEN buf
  ELSE IF buf[1][2] <= k
       THEN Drop(Tail(buf), k - buf[1][2])
       ELSE << <<buf[1][1], buf[1][2] - k>> >> \o Tail(buf)

\* relative index of TypedArray.prototype.subarray: a negative index counts
\* from the end, and the result is clamped to [0, len]
RelIndex(i, len) ==
  IF i < 0 THEN (IF len + i > 0 THEN len + i ELSE 0)
  ELSE (IF i < len THEN i ELSE len)

\* buf.subarray(start, end)
Subarray(buf, start, end) ==
  LET len == BufLen(buf)
      s   == RelIndex(start, len)
      e   == RelIndex(end, len)
  IN IF e <= s THEN << >> ELSE Take(Drop(buf, s), e - s)

\* buf.subarray(start): end defaults to buf.length
SubarrayFrom(buf, start) == Subarray(buf, start, BufLen(buf))

\* ------------------------------------------------------------------------
\* chunkStream: the generator's local state and its steps
\* ------------------------------------------------------------------------
DEFAULT_CHUNK_SIZE == 64 * 1024

\* A byte source (Readable): the fragments it still has to produce, and
\* whether it throws once they are produced instead of ending.
Source(frags, fails) == [frags |-> frags, fails |-> fails]

\* chunkStream(source, chunkSize) before its first step (lines 13-14)
GenInit(source, chunkSize) ==
  [source       |-> source,
   chunkSize    |-> chunkSize,
   pending      |-> << >>,
   pendingBytes |-> 0,
   pc           |-> "read"]

\* a slip in line 19: the running count is overwritten instead of added to
ReadData_overwritesCount(g) ==
  LET buf == g.source.frags[1]
  IN [g EXCEPT !.source.frags  = Tail(g.source.frags),
               !.pending       = Append(g.pending, buf),
               !.pendingBytes  = BufLen(buf),
               !.pc            = "while"]

\* lines 16-19: the source produces a fragment; it is appended to pending
ReadData(g) ==
  LET buf == g.source.frags[1]
  IN [g EXCEPT !.source.frags  = Tail(g.source.frags),
               !.pending       = Append(g.pending, buf),
               !.pendingBytes  = g.pendingBytes + BufLen(buf),
               !.pc            = "while"]

\* line 22: skip the merge when pending holds exactly one fragment
Merged(g) == IF Len(g.pending) = 1 THEN g.pending[1] ELSE BufferConcat(g.pending)

\* line 25: the frame yielded by one iteration of the while loop
SliceFrame(g) == Subarray(Merged(g), 0, g.chunkSize)

\* a slip in lines 27-33: the remainder is not kept
SliceRest_dropsRemainder(g) ==
  [g EXCEPT !.pending = << >>, !.pendingBytes = 0]

\* lines 27-33: the generator state after that iteration
SliceRest(g) ==
  LET remainder == SubarrayFrom(Merged(g), g.chunkSize)
  IN IF BufLen(remainder) > 0
     THEN [g EXCEPT !.pending = << remainder >>,
                    !.pendingBytes = BufLen(remainder)]
     ELSE [g EXCEPT !.pending = << >>, !.pendingBytes = 0]

\* line 38: the final, possibly short, frame
FinalFrame(g) == Merged(g)

\* What the generator does next, from its program counter:
\*   "read"   waiting for the source           (line 16)
\*   "while"  testing the while condition      (line 21)
\*   "final"  source exhausted                 (line 37)
\*   "done"   returned;  "threw"  the source's failure propagated
\* line 21: the while condition
WhileCond(g) == g.pendingBytes >= g.chunkSize

\* a slip in line 37: the final yield also happens with nothing pending
FinalCond_always(g) == g.pendingBytes >= 0

\* line 37: the condition of the final yield
FinalCond(g) == g.pendingBytes > 0

GenCanRead(g)   == g.pc = "read" /\ g.source.frags # << >>
GenSrcEnds_ignoresFailure(g) == g.pc = "read" /\ g.source.frags = << >>
GenSrcEnds(g)   == g.pc = "read" /\ g.source.frags = << >> /\ ~g.source.fails
GenSrcThrows(g) == g.pc = "read" /\ g.source.frags = << >> /\ g.source.fails
GenSlices(g)    == g.pc = "while" /\ WhileCond(g)
GenLoopEnds(g)  == g.pc = "while" /\ ~WhileCond(g)
GenFinal_always(g) == g.pc = "final"
GenFinal(g)     == g.pc = "final" /\ FinalCond(g)
GenReturns(g)   == g.pc = "final" /\ ~FinalCond(g)

\* One next() on the generator: it runs until it yields a frame ("chunk"),
\* returns ("done") or propagates the source's failure ("threw").
RECURSIVE GenNext(_)
GenNext(g) ==
  IF GenCanRead(g) THEN GenNext(ReadData(g))
  ELSE IF GenSrcEnds(g) THEN GenNext([g EXCEPT !.pc = "final"])
  ELSE IF GenSrcThrows(g)
       THEN [kind |-> "threw", chunk |-> << >>, g |-> [g EXCEPT !.pc = "threw"]]
  ELSE IF GenSlices(g)
       THEN [kind |-> "chunk", chunk |-> SliceFrame(g), g |-> SliceRest(g)]
  ELSE IF GenLoopEnds(g) THEN GenNext([g EXCEPT !.pc = "read"])
  ELSE IF GenFinal(g)
       THEN [kind |-> "chunk", chunk |-> FinalFrame(g), g |-> [g EXCEPT !.pc = "done"]]
  ELSE [kind |-> "done", chunk |-> << >>, g |-> [g EXCEPT !.pc = "done"]]

\* every frame the generator yields from g on, until it returns or throws
RECURSIVE GenAll(_)
GenAll(g) ==
  LET r == GenNext(g)
  IN IF r.kind = "chunk" THEN << r.chunk >> \o GenAll(r.g) ELSE << >>

\* ------------------------------------------------------------------------
\* gRPC client: constants and pure helpers
\* ------------------------------------------------------------------------
CHUNK_SIZE == 64 * 1024

\* an absent value (null / undefined) and a present one
Null == << >>
Some(x) == << x >>

\* grpc.status codes
GRPC_CANCELLED == 1
GRPC_UNKNOWN == 2
GRPC_INVALID_ARGUMENT == 3
GRPC_DEADLINE_EXCEEDED == 4
GRPC_INTERNAL == 13
GRPC_UNAVAILABLE == 14

\* a slip in lines 316-317: the UNAVAILABLE case is missing and falls to
\* the default
mapGrpcError_noUnavailable(code) ==
  IF code = GRPC_INVALID_ARGUMENT
    THEN [class |-> "ClamAVValidationError", code |-> "VALIDATION_ERROR",
          statusCode |-> Some(code), cause |-> Some(code)]
  ELSE IF code = GRPC_INTERNAL
    THEN [class |-> "ClamAVServiceError", code |-> "SERVICE_ERROR",
          statusCode |-> Some(code), cause |-> Some(code)]
  ELSE IF code = GRPC_DEADLINE_EXCEEDED
    THEN [class |-> "ClamAVTimeoutError", code |-> "TIMEOUT",
          statusCode |-> Some(code), cause |-> Some(code)]
  ELSE IF code = GRPC_CANCELLED
    THEN [class |-> "ClamAVError", code |-> "CANCELLED",
          statusCode |-> Some(code), cause |-> Some(code)]
  ELSE [class |-> "ClamAVError", code |-> "GRPC_ERROR",
        statusCode |-> Some(code), cause |-> Some(code)]

\* mapGrpcError: the ClamAVError built from a grpc.ServiceError of this code
mapGrpcError(code) ==
  IF code = GRPC_INVALID_ARGUMENT
    THEN [class |-> "ClamAVValidationError", code |-> "VALIDATION_ERROR",
          statusCode |-> Some(code), cause |-> Some(code)]
  ELSE IF code = GRPC_INTERNAL
    THEN [class |-> "ClamAVServiceError", code |-> "SERVICE_ERROR",
          statusCode |-> Some(code), cause |-> Some(code)]
  ELSE IF code = GRPC_DEADLINE_EXCEEDED
    THEN [class |-> "ClamAVTimeoutError", code |-> "TIMEOUT",
          statusCode |-> Some(code), cause |-> Some(code)]
  ELSE IF code = GRPC_UNAVAILABLE
    THEN [class |-> "ClamAVConnectionError", code |-> "CONNECTION_ERROR",
          statusCode |-> Null, cause |-> Some(code)]
  ELSE IF code = GRPC_CANCELLED
    THEN [class |-> "ClamAVError", code |-> "CANCELLED",
          statusCode |-> Some(code), cause |-> Some(code)]
  ELSE [class |-> "ClamAVError", code |-> "GRPC_ERROR",
        statusCode |-> Some(code), cause |-> Some(code)]

\* the failure a byte source throws; scanMultiple keeps an Error as it is
SourceError ==
  [class |-> "Error", code |-> "SOURCE_FAILED", statusCode |-> Null, cause |-> Null]

\* toScanResult: "" stands for a missing field of the response
toScanResult(response) ==
  LET status == IF response.status # "" THEN response.status ELSE "ERROR"
  IN [status     |-> status,
      message    |-> IF response.message # "" THEN response.message ELSE "",
      scanTime   |-> IF response.scan_time # 0 THEN response.scan_time ELSE 0,
      filename   |-> IF response.filename # "" THEN Some(response.filename) ELSE Null,
      isInfected |-> (status = "FOUND")]

\* a slip in lines 262/273: the filename is put on every frame
UploadFrame_alwaysNamed(chunk, first, filename, last) ==
  [chunk |-> chunk, filename |-> filename, isLast |-> last]

\* a slip in line 263: every write is marked as the file's last
UploadFrame_alwaysLast(chunk, first, filename, last) ==
  [chunk |-> chunk, filename |-> IF first THEN filename ELSE "", isLast |-> TRUE]

\* the frame sendStreamChunks hands to call.write
UploadFrame(chunk, first, filename, last) ==
  [chunk |-> chunk, filename |-> IF first THEN filename ELSE "", isLast |-> last]

\* a slip in line 261: the new chunk is written instead of the held one
HeldChunk_new(prev, chunk) == chunk

\* lines 259-267: which chunk is written when a new one arrives
HeldChunk(prev, chunk) == prev

\* a slip in line 196: the new result is put in front of the buffer
PushResult_front(buffer, result) == << result >> \o buffer

\* line 196: state.results.push(result)
PushResult(buffer, result) == Append(buffer, result)

\* a slip in lines 229-237: termination is tested before the buffer
LoopBranch_doneFirst(buffered, isDone, nYielded) ==
  IF isDone THEN "finish"
  ELSE IF nYielded < buffered THEN "yield"
  ELSE "suspend"

\* lines 229-241: what one iteration of the delivery loop does
LoopBranch(buffered, isDone, nYielded) ==
  IF nYielded < buffered THEN "yield"
  ELSE IF isDone /\ nYielded >= buffered THEN "finish"
  ELSE "suspend"

\* ------------------------------------------------------------------------
\* State
\* ------------------------------------------------------------------------
VARIABLES
  \* -- a chunkStream run on its own
  input,        \* the arguments of the chunkStream run under test
  gen,          \* that run's generator state
  frames,       \* the frames it has yielded so far, in order
  \* -- one scanMultiple call
  files,        \* the files argument
  chunks,       \* chunks[k]: the frames chunkStream yields for files[k]
  signal,       \* options.signal: "none", "armed" or "aborted"
  cpc,          \* where the consumer of the result sequence stands
  results,      \* state.results
  resolveNext,  \* state.resolveNext: "null", "pending" or "settled"
  done,         \* state.done
  error,        \* state.error (Null or Some(e))
  yielded,      \* the local yielded
  spc,          \* where the submission task stands
  fileIdx,      \* index in files of the file being sent
  sgen,         \* the chunkStream generator of that file
  prevChunk,    \* sendStreamChunks' prevChunk (Null or Some(buffer))
  isFirst,      \* sendStreamChunks' isFirst
  wire,         \* every call.write so far, in order, with the file it was for
  endCalls,     \* number of call.end() so far
  cancelCalls,  \* number of call.cancel() so far
  endEmitted,   \* the exchange has emitted 'end'
  errorEmitted, \* the exchange has emitted 'error'
  emitted,      \* responses the remote side has emitted, in order
  delivered,    \* values the result sequence has yielded, in order
  raised,       \* the failure the result sequence threw (Null or Some(e))
  firstError,   \* the first failure recorded in state.error (Null or Some(e))
  \* -- the transport and the promise an operation returns
  opened,       \* number of transport invocations (gRPC call opened, fetch called)
  closed,       \* close() has been called on the client
  promise,      \* the promise the operation returned (Null while pending)
  \* -- one request of the REST client
  rpc,          \* where ClamAVRestClient.fetch stands
  timer,        \* the timeout timer: "none", "set", "fired" or "cleared"
  ctrl,         \* controller.signal: Null, or Some(reason) once aborted
  reason,       \* options.signal.reason once that signal aborts
  settled,      \* the promise globalThis.fetch returned (Null while pending)
  trigger,      \* what aborted the controller: "none", "timeout" (the timer),
                \* "signal" (options.signal, during the request) or "already"
                \* (options.signal was aborted when the call was made)
  \* -- what the REST client holds of its input
  rsrc,         \* the input stream of a REST scanStream: what is left to read
  collected,    \* streamToBuffer's chunks
  body,         \* the body handed to globalThis.fetch (Null before that)
  scans         \* REST scanMultiple: the promises of its scanFile calls

cvars == <<input, gen, frames>>
consumerVars == <<cpc, resolveNext, yielded, delivered, raised>>
stateVars == <<results, done, error, firstError>>
senderVars == <<spc, fileIdx, sgen, prevChunk, isFirst, wire>>
callVars == <<endCalls, cancelCalls>>
remoteVars == <<endEmitted, errorEmitted, emitted>>
mvars == <<files, chunks, signal, consumerVars, stateVars, senderVars, callVars, remoteVars>>
tvars == <<opened, closed, promise>>
bvars == <<rsrc, collected, body, scans>>
rvars == <<rpc, timer, ctrl, reason, settled, trigger, bvars>>
vars == <<cvars, mvars, tvars, rvars>>

\* no transport invoked, no promise returned
IdleTransport == opened = 0 /\ closed = FALSE /\ promise = Null

\* nothing read from an input stream, nothing handed to fetch, no scan of
\* a scanMultiple started
IdleBody ==
  /\ rsrc = Source(<< >>, FALSE) /\ collected = << >>
  /\ body = Null /\ scans = << >>

\* no REST request under way
IdleRest ==
  /\ rpc = "idle" /\ timer = "none" /\ ctrl = Null
  /\ reason = "none" /\ settled = Null /\ trigger = "none"
  /\ IdleBody

\* the scanMultiple variables while only chunkStream runs
IdleMulti ==
  /\ files = << >> /\ chunks = << >> /\ signal = "none"
  /\ cpc = "init" /\ resolveNext = "null" /\ yielded = 0
  /\ delivered = << >> /\ raised = Null
  /\ results = << >> /\ done = FALSE /\ error = Null /\ firstError = Null
  /\ spc = "idle" /\ fileIdx = 0 /\ sgen = GenInit(Source(<< >>, FALSE), CHUNK_SIZE)
  /\ prevChunk = Null /\ isFirst = TRUE /\ wire = << >>
  /\ endCalls = 0 /\ cancelCalls = 0
  /\ endEmitted = FALSE /\ errorEmitted = FALSE /\ emitted = << >>
  /\ IdleTransport /\ IdleRest

\* ------------------------------------------------------------------------
\* chunkStream on its own: inputs and steps
\* ------------------------------------------------------------------------
\* fragments a source may produce
FragChoices ==
  { << >>,
    Bytes(0, 1), Bytes(1, 1),
    << <<0, 1>>, <<1, 2>> >>,
    Bytes(0, 70000), Bytes(1, 10000), Bytes(0, 50000),
    Bytes(1, 150 * 1024) }

\* frame sizes a caller may pass
SizeChoices == { -1, 0, 1, 2, 3, DEFAULT_CHUNK_SIZE }

RECURSIVE SeqsUpTo(_, _)
SeqsUpTo(S, n) ==
  IF n = 0 THEN { << >> }
  ELSE LET shorter == SeqsUpTo(S, n - 1)
       IN shorter \cup { Append(s, x) : s \in shorter, x \in S }

\* ceil(t / f) for f > 0
CeilDiv(t, f) == (t + f - 1) \div f

TotalLen(frags) == BufLen(BufferConcat(frags))

InitChunk ==
  /\ \E frags \in SeqsUpTo(FragChoices, MaxFrags), fails \in BOOLEAN,
        size \in SizeChoices :
       /\ size > 0 => CeilDiv(TotalLen(frags), size) <= MaxFrames
       /\ input = [source |-> Source(frags, fails), chunkSize |-> size]
       /\ gen = GenInit(Source(frags, fails), size)
  /\ frames = << >>
  /\ IdleMulti

ChunkRead ==
  /\ GenCanRead(gen)
  /\ gen' = ReadData(gen)
  /\ UNCHANGED <<input, frames, mvars, tvars, rvars>>

ChunkSourceEnd ==
  /\ GenSrcEnds(gen)
  /\ gen' = [gen EXCEPT !.pc = "final"]
  /\ UNCHANGED <<input, frames, mvars, tvars, rvars>>

ChunkSourceThrow ==
  /\ GenSrcThrows(gen)
  /\ gen' = [gen EXCEPT !.pc = "threw"]
  /\ UNCHANGED <<input, frames, mvars, tvars, rvars>>

ChunkSlice ==
  /\ GenSlices(gen)
  /\ Len(frames) < MaxFrames
  /\ frames' = Append(frames, SliceFrame(gen))
  /\ gen' = SliceRest(gen)
  /\ UNCHANGED <<input, mvars, tvars, rvars>>

ChunkLoopEnd ==
  /\ GenLoopEnds(gen)
  /\ gen' = [gen EXCEPT !.pc = "read"]
  /\ UNCHANGED <<input, frames, mvars, tvars, rvars>>

ChunkFinal ==
  /\ GenFinal(gen)
  /\ frames' = Append(frames, FinalFrame(gen))
  /\ gen' = [gen EXCEPT !.pc = "done"]
  /\ UNCHANGED <<input, mvars, tvars, rvars>>

ChunkReturn ==
  /\ GenReturns(gen)
  /\ gen' = [gen EXCEPT !.pc = "done"]
  /\ UNCHANGED <<input, frames, mvars, tvars, rvars>>

NextChunk ==
  \/ ChunkRead
  \/ ChunkSourceEnd
  \/ ChunkSourceThrow
  \/ ChunkSlice
  \/ ChunkLoopEnd
  \/ ChunkFinal
  \/ ChunkReturn

SpecChunk == InitChunk /\ [][NextChunk]_vars

\* ------------------------------------------------------------------------
\* scanMultiple: inputs and steps
\* ------------------------------------------------------------------------
\* file entries a caller may pass: data is what Readable.from(file.data)
\* produces (a Buffer gives one fragment)
FileChoices ==
  { [data |-> Source(<< Bytes(0, 5) >>, FALSE),          filename |-> "a.txt"],
    [data |-> Source(<< Bytes(1, 150 * 1024) >>, FALSE), filename |-> "b.bin"],
    [data |-> Source(<< << >> >>, FALSE),                filename |-> "empty.txt"],
    [data |-> Source(<< Bytes(0, 70000) >>, TRUE),       filename |-> "broken.bin"],
    [data |-> Source(<< Bytes(1, 65537) >>, FALSE),      filename |-> ""] }

\* responses the remote side may emit
Responses ==
  { [status |-> "OK",    message |-> "",      scan_time |-> 1, filename |-> "a.txt"],
    [status |-> "FOUND", message |-> "Eicar", scan_time |-> 2, filename |-> "b.bin"] }

\* status codes of the 'error' events the exchange may emit
ErrorCodes == { GRPC_CANCELLED }

IdleChunk ==
  /\ input = [source |-> Source(<< >>, FALSE), chunkSize |-> DEFAULT_CHUNK_SIZE]
  /\ gen = GenInit(Source(<< >>, FALSE), DEFAULT_CHUNK_SIZE)
  /\ frames = << >>

\* scanMultiple(files, options) before the first next() on its result
\* sequence, for files drawn from choices and options.signal from signals
InitFor(choices, signals) ==
  /\ files \in SeqsUpTo(choices, MaxFiles)
  /\ chunks = [k \in 1..Len(files) |-> GenAll(GenInit(files[k].data, CHUNK_SIZE))]
  /\ signal \in signals
  /\ cpc = "init" /\ resolveNext = "null" /\ yielded = 0
  /\ delivered = << >> /\ raised = Null
  /\ results = << >> /\ done = FALSE /\ error = Null /\ firstError = Null
  /\ spc = "idle" /\ fileIdx = 0 /\ sgen = GenInit(Source(<< >>, FALSE), CHUNK_SIZE)
  /\ prevChunk = Null /\ isFirst = TRUE /\ wire = << >>
  /\ endCalls = 0 /\ cancelCalls = 0
  /\ endEmitted = FALSE /\ errorEmitted = FALSE /\ emitted = << >>
  /\ IdleChunk
  /\ IdleTransport /\ IdleRest

\* a call without options.signal
Init == InitFor(FileChoices, {"none"})

\* Scheduling (Node's event loop).  Resolving the promise the consumer is
\* suspended on queues the consumer's continuation as a microtask, which
\* runs before any later task.  cpc is then
\*   "ready"     when an exchange event resolved it: the exchange may still
\*               deliver further events of the same tick before it runs;
\*   "resuming"  when the submission task resolved it from its own
\*               continuation: the consumer's continuation runs next.
\* The submission task advances on a task of its byte source, so it takes
\* no step while a continuation of the consumer is queued.
ContinuationQueued == cpc \in {"ready", "resuming"}

Notify_lost(how) == UNCHANGED <<resolveNext, cpc>>

\* lines 186-188: notify() resolves the promise the consumer is suspended
\* on; calling the resolver of a settled promise does nothing
Notify(how) ==
  IF resolveNext = "pending"
  THEN resolveNext' = "settled" /\ cpc' = how
  ELSE UNCHANGED <<resolveNext, cpc>>

\* lines 228-242: one iteration of the delivery loop
Iterate ==
  LET branch == LoopBranch(Len(results), done, yielded)
  IN \/ /\ branch = "yield"
        /\ delivered' = Append(delivered, results[yielded + 1])
        /\ yielded' = yielded + 1
        /\ cpc' = "yielded"
        /\ UNCHANGED <<resolveNext, raised>>
     \/ /\ branch = "finish"
        /\ IF error # Null
           THEN cpc' = "threw" /\ raised' = error
           ELSE cpc' = "returned" /\ raised' = raised
        /\ UNCHANGED <<resolveNext, yielded, delivered>>
     \/ /\ branch = "suspend"
        /\ resolveNext' = "pending"
        /\ cpc' = "waiting"
        /\ UNCHANGED <<yielded, delivered, raised>>

\* The first next() on the result sequence (lines 179-242 up to the first
\* suspension): the call is opened, the abort signal wired, the handlers
\* registered, the submission task started, and the loop entered.
Start ==
  /\ cpc = "init"
  /\ cancelCalls' = IF signal = "aborted" THEN cancelCalls + 1 ELSE cancelCalls
  /\ IF files = << >>
     THEN /\ endCalls' = endCalls + 1
          /\ spc' = "ended"
          /\ UNCHANGED <<fileIdx, sgen, prevChunk, isFirst>>
     ELSE /\ spc' = "sending"
          /\ fileIdx' = 1
          /\ sgen' = GenInit(files[1].data, CHUNK_SIZE)
          /\ prevChunk' = Null
          /\ isFirst' = TRUE
          /\ UNCHANGED endCalls
  /\ Iterate
  /\ opened' = opened + 1
  /\ UNCHANGED <<files, chunks, signal, stateVars, wire, remoteVars, cvars, closed, promise, rvars>>

\* next() after a yield: the loop continues
Pull ==
  /\ cpc = "yielded"
  /\ Iterate
  /\ UNCHANGED <<files, chunks, signal, stateVars, senderVars, callVars, remoteVars, cvars, tvars, rvars>>

\* the consumer resumes after its promise was resolved
Wake ==
  /\ ContinuationQueued
  /\ Iterate
  /\ UNCHANGED <<files, chunks, signal, stateVars, senderVars, callVars, remoteVars, cvars, tvars, rvars>>

\* lines 195-198: call.on('data')
OnData ==
  /\ cpc \notin {"init", "resuming"}
  /\ ~endEmitted /\ ~errorEmitted
  /\ Len(emitted) < MaxResults
  /\ \E response \in Responses :
       /\ emitted' = Append(emitted, response)
       /\ results' = PushResult(results, toScanResult(response))
  /\ Notify("ready")
  /\ UNCHANGED <<files, chunks, signal, yielded, delivered, raised, done, error, firstError,
                 senderVars, callVars, endEmitted, errorEmitted, cvars, tvars, rvars>>

\* lines 200-204: call.on('error')
OnError ==
  /\ cpc \notin {"init", "resuming"}
  /\ ~errorEmitted
  /\ errorEmitted' = TRUE
  /\ \E code \in ErrorCodes :
       /\ error' = Some(mapGrpcError(code))
       /\ firstError' = IF firstError = Null THEN Some(mapGrpcError(code)) ELSE firstError
  /\ done' = TRUE
  /\ Notify("ready")
  /\ UNCHANGED <<files, chunks, signal, yielded, delivered, raised, results,
                 senderVars, callVars, endEmitted, emitted, cvars, tvars, rvars>>

\* lines 206-209: call.on('end')
OnEnd ==
  /\ cpc \notin {"init", "resuming"}
  /\ ~endEmitted
  /\ endEmitted' = TRUE
  /\ done' = TRUE
  /\ Notify("ready")
  /\ UNCHANGED <<files, chunks, signal, yielded, delivered, raised, results, error, firstError,
                 senderVars, callVars, errorEmitted, emitted, cvars, tvars, rvars>>

\* lines 258-268: chunkStream yields the next chunk; the held one is written
SendChunk ==
  /\ spc = "sending"
  /\ ~ContinuationQueued
  /\ LET r == GenNext(sgen)
     IN /\ r.kind = "chunk"
        /\ sgen' = r.g
        /\ IF prevChunk # Null
           THEN /\ wire' = Append(wire,
                     [frame |-> UploadFrame(HeldChunk(prevChunk[1], r.chunk), isFirst,
                                            files[fileIdx].filename, FALSE),
                      file  |-> fileIdx])
                /\ isFirst' = FALSE
           ELSE UNCHANGED <<wire, isFirst>>
        /\ prevChunk' = Some(r.chunk)
  /\ UNCHANGED <<files, chunks, signal, consumerVars, stateVars, spc, fileIdx, callVars,
                 remoteVars, cvars, tvars, rvars>>

\* line 214: for (const file of files) has a file after the idx-th of n
MoreFiles_never(idx, n) == FALSE

MoreFiles(idx, n) == idx < n

\* lines 258, 270-276 and 214-218: chunkStream returns and the held chunk
\* is written last; the submission task, resumed by the same turn of the
\* event loop, starts on the next file or ends the call
SendLast ==
  /\ spc = "sending"
  /\ ~ContinuationQueued
  /\ GenNext(sgen).kind = "done"
  /\ IF prevChunk # Null
     THEN wire' = Append(wire,
               [frame |-> UploadFrame(prevChunk[1], isFirst,
                                      files[fileIdx].filename, TRUE),
                file  |-> fileIdx])
     ELSE UNCHANGED wire
  /\ IF MoreFiles(fileIdx, Len(files))
     THEN /\ fileIdx' = fileIdx + 1
          /\ sgen' = GenInit(files[fileIdx + 1].data, CHUNK_SIZE)
          /\ prevChunk' = Null
          /\ isFirst' = TRUE
          /\ UNCHANGED <<spc, endCalls>>
     ELSE /\ endCalls' = endCalls + 1
          /\ spc' = "ended"
          /\ sgen' = GenNext(sgen).g
          /\ UNCHANGED <<fileIdx, prevChunk, isFirst>>
  /\ UNCHANGED <<files, chunks, signal, consumerVars, stateVars, cancelCalls,
                 remoteVars, cvars, tvars, rvars>>

\* lines 219-224: the byte source of a file failed
SendFail ==
  /\ spc = "sending"
  /\ ~ContinuationQueued
  /\ LET r == GenNext(sgen)
     IN /\ r.kind = "threw"
        /\ sgen' = r.g
  /\ error' = Some(SourceError)
  /\ firstError' = IF firstError = Null THEN Some(SourceError) ELSE firstError
  /\ done' = TRUE
  /\ cancelCalls' = cancelCalls + 1
  /\ Notify("resuming")
  /\ spc' = "failed"
  /\ UNCHANGED <<files, chunks, signal, yielded, delivered, raised, results, fileIdx,
                 prevChunk, isFirst, wire, endCalls, remoteVars, cvars, tvars, rvars>>

\* lines 286-293: the external signal fires; its listener, registered by
\* wireAbortSignal once the call is open, cancels the call
Abort ==
  /\ signal = "armed"
  /\ signal' = "aborted"
  /\ cancelCalls' = IF cpc # "init" THEN cancelCalls + 1 ELSE cancelCalls
  /\ UNCHANGED <<files, chunks, consumerVars, stateVars, senderVars, endCalls,
                 remoteVars, cvars, tvars, rvars>>

Next ==
  \/ Start
  \/ Pull
  \/ Wake
  \/ OnData
  \/ OnError
  \/ OnEnd
  \/ SendChunk
  \/ SendLast
  \/ SendFail

Spec == Init /\ [][Next]_vars

\* The same steps with the progress Node guarantees: a queued continuation
\* of the consumer runs (microtask queue), and a consumer iterating with
\* for await keeps calling next() after each value.
LiveFileChoices ==
  { f \in FileChoices : f.filename \in {"a.txt", "broken.bin"} }

InitLive == InitFor(LiveFileChoices, {"none"})

SpecLive ==
  /\ InitLive
  /\ [][Next]_vars
  /\ WF_vars(Start) /\ WF_vars(Wake) /\ WF_vars(Pull)

\* a promise that could be settled again
Settle_overwrites(p, v) == Some(v)

\* ------------------------------------------------------------------------
\* scanStream (gRPC): one file over one client-streaming call
\* ------------------------------------------------------------------------
\* resolve / reject of the promise an operation returned: only the first
\* settlement of a promise counts
Settle(p, v) == IF p = Null THEN Some(v) ELSE p

\* status codes the callback of a scanStream call may report
StreamErrorCodes ==
  { GRPC_CANCELLED, GRPC_UNKNOWN, GRPC_INVALID_ARGUMENT, GRPC_DEADLINE_EXCEEDED,
    GRPC_INTERNAL, GRPC_UNAVAILABLE }

\* scanStream(input, filename, options) once resolveInput has resolved:
\* files holds the one resolved input
InitStream ==
  /\ \E f \in FileChoices : files = << f >>
  /\ chunks = [k \in 1..Len(files) |-> GenAll(GenInit(files[k].data, CHUNK_SIZE))]
  /\ signal \in {"none", "armed"}
  /\ cpc = "init" /\ resolveNext = "null" /\ yielded = 0
  /\ delivered = << >> /\ raised = Null
  /\ results = << >> /\ done = FALSE /\ error = Null /\ firstError = Null
  /\ spc = "idle" /\ fileIdx = 0 /\ sgen = GenInit(Source(<< >>, FALSE), CHUNK_SIZE)
  /\ prevChunk = Null /\ isFirst = TRUE /\ wire = << >>
  /\ endCalls = 0 /\ cancelCalls = 0
  /\ endEmitted = FALSE /\ errorEmitted = FALSE /\ emitted = << >>
  /\ IdleChunk
  /\ IdleTransport /\ IdleRest

\* lines 154-171, the promise executor: the call is opened, the abort
\* signal wired, and sendStreamChunks started
StreamStart ==
  /\ cpc = "init"
  /\ cpc' = "awaiting"
  /\ opened' = opened + 1
  /\ cancelCalls' = IF signal = "aborted" THEN cancelCalls + 1 ELSE cancelCalls
  /\ spc' = "sending"
  /\ fileIdx' = 1
  /\ sgen' = GenInit(files[1].data, CHUNK_SIZE)
  /\ prevChunk' = Null
  /\ isFirst' = TRUE
  /\ UNCHANGED <<files, chunks, signal, resolveNext, yielded, delivered, raised,
                 stateVars, wire, endCalls, remoteVars, cvars, closed, promise, rvars>>

\* lines 258 and 270-276: chunkStream returns, the held chunk is written
\* last, and sendStreamChunks resolves; scanStream does nothing more
StreamSendLast ==
  /\ spc = "sending"
  /\ GenNext(sgen).kind = "done"
  /\ sgen' = GenNext(sgen).g
  /\ IF prevChunk # Null
     THEN wire' = Append(wire,
               [frame |-> UploadFrame(prevChunk[1], isFirst,
                                      files[fileIdx].filename, TRUE),
                file  |-> fileIdx])
     ELSE UNCHANGED wire
  /\ spc' = "sent"
  /\ UNCHANGED <<files, chunks, signal, consumerVars, stateVars, fileIdx, prevChunk,
                 isFirst, callVars, remoteVars, cvars, tvars, rvars>>

\* lines 171-174: sendStreamChunks rejected; the call is cancelled and the
\* returned promise rejected with the failure
StreamSendFail ==
  /\ spc = "sending"
  /\ LET r == GenNext(sgen)
     IN /\ r.kind = "threw"
        /\ sgen' = r.g
  /\ cancelCalls' = cancelCalls + 1
  /\ promise' = Settle(promise, [kind |-> "rejected", value |-> SourceError])
  /\ spc' = "failed"
  /\ UNCHANGED <<files, chunks, signal, consumerVars, stateVars, fileIdx, prevChunk,
                 isFirst, wire, endCalls, remoteVars, cvars, opened, closed, rvars>>

\* lines 158-164: the call's callback, invoked once by the library, with a
\* response once the remote side has seen the file's last frame
StreamReplyOk ==
  /\ cpc = "awaiting"
  /\ ~errorEmitted /\ emitted = << >>
  /\ \E i \in 1..Len(wire) : wire[i].frame.isLast
  /\ \E response \in Responses :
       /\ emitted' = << response >>
       /\ promise' = Settle(promise, [kind |-> "resolved",
                                       value |-> toScanResult(response)])
  /\ UNCHANGED <<files, chunks, signal, consumerVars, stateVars, senderVars, callVars,
                 endEmitted, errorEmitted, cvars, opened, closed, rvars>>

\* lines 158-162: the callback invoked with an error
StreamReplyError ==
  /\ cpc = "awaiting"
  /\ ~errorEmitted /\ emitted = << >>
  /\ errorEmitted' = TRUE
  /\ \E code \in StreamErrorCodes :
       promise' = Settle(promise, [kind |-> "rejected", value |-> mapGrpcError(code)])
  /\ UNCHANGED <<files, chunks, signal, consumerVars, stateVars, senderVars, callVars,
                 endEmitted, emitted, cvars, opened, closed, rvars>>

NextStream ==
  \/ StreamStart
  \/ SendChunk
  \/ StreamSendLast
  \/ StreamSendFail
  \/ StreamReplyOk
  \/ StreamReplyError
  \/ Abort

SpecStream == InitStream /\ [][NextStream]_vars

\* a call with an options.signal that has not fired when the call is made;
\* it may fire before the first next() or at any time after
SignalFileChoices ==
  { f \in FileChoices : f.filename \in {"a.txt", "b.bin", "broken.bin"} }

InitSignal == InitFor(SignalFileChoices, {"armed"})

NextSignal ==
  \/ Start
  \/ Pull
  \/ Wake
  \/ OnData
  \/ OnError
  \/ OnEnd
  \/ SendChunk
  \/ SendLast
  \/ SendFail
  \/ Abort

SpecSignal == InitSignal /\ [][NextSignal]_vars

\* The consumer leaves its for await loop early (break or return): the
\* runtime calls return() on the generator, which is suspended at the yield
\* of line 230 and finishes there; the function has no finally block.
Abandon ==
  /\ cpc = "yielded"
  /\ cpc' = "abandoned"
  /\ UNCHANGED <<files, chunks, signal, resolveNext, yielded, delivered, raised,
                 stateVars, senderVars, callVars, remoteVars, cvars, tvars, rvars>>

InitAbandon == InitFor(SignalFileChoices, {"none"})

NextAbandon ==
  \/ Start
  \/ Pull
  \/ Wake
  \/ OnData
  \/ OnError
  \/ OnEnd
  \/ SendChunk
  \/ SendLast
  \/ SendFail
  \/ Abandon

SpecAbandon == InitAbandon /\ [][NextAbandon]_vars

\* ------------------------------------------------------------------------
\* ClamAVRestClient: scanFile over fetch (src/rest/client.ts)
\* ------------------------------------------------------------------------
\* what an aborted AbortSignal carries as its reason: the default
\* DOMException named AbortError (abort() without argument), the
\* DOMException named TimeoutError of AbortSignal.timeout(), or whatever
\* value the caller passed to abort(reason)
SignalReasons == { "AbortError", "TimeoutError", "custom" }

\* responses of the service: HTTP status, whether the body parses as JSON,
\* and the fields of the parsed body (Null for a field the body lacks)
HttpResponse(http, json, status, message, time) ==
  [http |-> http, json |-> json, status |-> status, message |-> message, time |-> time]

HttpResponses ==
  { HttpResponse(200, TRUE,  Some("OK"),    Some(""),          Some(1)),
    HttpResponse(200, TRUE,  Some("FOUND"), Some("Eicar"),     Some(2)),
    HttpResponse(200, TRUE,  Null,          Null,              Null),
    HttpResponse(200, TRUE,  Some(""),      Some(""),          Some(0)),
    HttpResponse(200, FALSE, Null,          Null,              Null),
    HttpResponse(400, TRUE,  Null,          Some("bad"),       Null),
    HttpResponse(413, TRUE,  Null,          Some("too large"), Null),
    HttpResponse(499, TRUE,  Null,          Null,              Null),
    HttpResponse(502, TRUE,  Some("ERROR"), Null,              Null),
    HttpResponse(502, FALSE, Null,          Null,              Null),
    HttpResponse(504, TRUE,  Null,          Some("timeout"),   Null),
    HttpResponse(500, TRUE,  Null,          Null,              Null) }

\* Response.ok
HttpOk(response) == response.http >= 200 /\ response.http <= 299

\* a ?? b
Coalesce(a, b) == IF a # Null THEN a[1] ELSE b

\* default timeout of a client, in ms
DEFAULT_TIMEOUT == 300000

RestError(class, message, code, statusCode, cause) ==
  [class |-> class, message |-> message, code |-> code,
   statusCode |-> statusCode, cause |-> cause]

\* lines 211-233, handleErrorStatus: the failure thrown for a response
\* that is not ok, given its parsed body
handleErrorStatus(response) ==
  LET message == Coalesce(response.message,
                          Coalesce(response.status, "HTTP " \o ToString(response.http)))
  IN IF response.http \in {400, 413}
       THEN RestError("ClamAVValidationError", message, "VALIDATION_ERROR",
                      Some(response.http), Null)
     ELSE IF response.http = 499
       THEN RestError("ClamAVError", message, "CANCELLED", Some(499), Null)
     ELSE IF response.http = 502
       THEN RestError("ClamAVServiceError", message, "SERVICE_ERROR", Some(502), Null)
     ELSE IF response.http = 504
       THEN RestError("ClamAVTimeoutError", message, "TIMEOUT", Some(504), Null)
     ELSE RestError("ClamAVError", message, "UNKNOWN", Some(response.http), Null)

\* a slip in lines 88 and 117: the original failure is not handed on
ConnectionFailure_noCause(err) ==
  RestError("ClamAVConnectionError", "Failed to connect to ClamAV API",
            "CONNECTION_ERROR", Null, Null)

\* lines 46-47, 58-59, 87-88 and 116-117: the catch clause of an operation
\* wraps a failure that is not a ClamAVError
ConnectionFailure(err) ==
  RestError("ClamAVConnectionError", "Failed to connect to ClamAV API",
            "CONNECTION_ERROR", Null, Some(err))

\* line 207
IsInfected(response, status) == status = "FOUND"

\* lines 192-209 and 86-88, parseScanResponse: what scanFile settles with
\* for a response.  The body is parsed first (a body that is not JSON makes
\* response.json() reject with a SyntaxError, which scanFile's catch clause
\* wraps), then the status is looked at.
parseScanResponse(response, filename) ==
  IF ~response.json
  THEN [kind |-> "rejected", value |-> ConnectionFailure("SyntaxError")]
  ELSE IF ~HttpOk(response)
  THEN [kind |-> "rejected", value |-> handleErrorStatus(response)]
  ELSE LET status == Coalesce(response.status, "ERROR")
       IN [kind  |-> "resolved",
           value |-> [status     |-> status,
                      message    |-> Coalesce(response.message, ""),
                      scanTime   |-> Coalesce(response.time, 0),
                      filename   |-> Some(filename),
                      isInfected |-> IsInfected(response, status)]]

\* a slip in line 181: the caller's signal is not consulted
AbortKind_alwaysCancelled(signalAborted) ==
  RestError("ClamAVError", "Request was cancelled", "CANCELLED", Some(499),
            Some("AbortError"))

\* lines 181-184: the failure fetch throws for an AbortError
AbortKind(signalAborted) ==
  IF signalAborted
  THEN RestError("ClamAVError", "Request was cancelled", "CANCELLED", Some(499),
                 Some("AbortError"))
  ELSE RestError("ClamAVTimeoutError",
                 "Request timed out after " \o ToString(DEFAULT_TIMEOUT) \o "ms",
                 "TIMEOUT", Some(504), Some("AbortError"))

\* lines 179-186 and 86-88: what scanFile rejects with when globalThis.fetch
\* rejected with err; anything that is not a ClamAVError is wrapped as a
\* connection failure
mapFetchRejection(err, signalAborted) ==
  IF err = "AbortError"
  THEN AbortKind(signalAborted)
  ELSE ConnectionFailure(err)

\* scanFile(buffer, 'file.txt', options) on a REST client, before the call;
\* a signal given in options may abort before the call is made
InitRest ==
  /\ signal \in {"none", "armed"}
  /\ reason \in (IF signal = "none" THEN {"none"} ELSE SignalReasons)
  /\ rpc = "idle" /\ timer = "none" /\ ctrl = Null
  /\ settled = Null /\ trigger = "none"
  /\ IdleBody
  /\ IdleTransport
  /\ files = << >> /\ chunks = << >>
  /\ cpc = "init" /\ resolveNext = "null" /\ yielded = 0
  /\ delivered = << >> /\ raised = Null
  /\ results = << >> /\ done = FALSE /\ error = Null /\ firstError = Null
  /\ spc = "idle" /\ fileIdx = 0 /\ sgen = GenInit(Source(<< >>, FALSE), CHUNK_SIZE)
  /\ prevChunk = Null /\ isFirst = TRUE /\ wire = << >>
  /\ endCalls = 0 /\ cancelCalls = 0
  /\ endEmitted = FALSE /\ errorEmitted = FALSE /\ emitted = << >>
  /\ IdleChunk

grpcIdle == <<files, chunks, consumerVars, stateVars, senderVars, callVars,
              remoteVars, cvars>>
restIdle == <<grpcIdle, bvars>>

\* lines 141-143, close(): nothing is done; closed records that it was called
RestClose ==
  /\ rpc = "idle" /\ ~closed
  /\ closed' = TRUE
  /\ UNCHANGED <<signal, opened, promise, rvars, restIdle>>

\* lines 150-177: this.fetch creates the controller, sets the timer, links
\* options.signal and calls globalThis.fetch with controller.signal.  A
\* fetch given an aborted signal rejects at once with the signal's reason.
Fetch ==
  /\ timer' = "set"
  /\ ctrl' = IF signal = "aborted" THEN Some(reason) ELSE Null
  /\ trigger' = IF signal = "aborted" THEN "already" ELSE "none"
  /\ opened' = opened + 1
  /\ IF signal = "aborted"
     THEN settled' = Some([kind |-> "rejected", value |-> reason]) /\ rpc' = "handling"
     ELSE settled' = Null /\ rpc' = "inflight"

\* lines 63-83: scanFile, given a buffer, calls this.fetch
RestCall ==
  /\ rpc = "idle"
  /\ Fetch
  /\ UNCHANGED <<signal, reason, closed, promise, restIdle>>

\* line 154: the timer fires and aborts the controller; the pending fetch
\* rejects with controller.signal.reason, the default AbortError
RestTimeout ==
  /\ rpc = "inflight" /\ timer = "set"
  /\ timer' = "fired"
  /\ ctrl' = Some("AbortError")
  /\ trigger' = "timeout"
  /\ settled' = Some([kind |-> "rejected", value |-> "AbortError"])
  /\ rpc' = "handling"
  /\ UNCHANGED <<signal, reason, tvars, restIdle>>

\* line 161: options.signal aborts; once the request is under way its
\* listener aborts the controller with the signal's reason and the pending
\* fetch rejects with that reason
RestSignal ==
  /\ signal = "armed"
  /\ rpc \in {"idle", "reading", "inflight"}
  /\ signal' = "aborted"
  /\ IF rpc = "inflight"
     THEN /\ ctrl' = Some(reason)
          /\ trigger' = "signal"
          /\ settled' = Some([kind |-> "rejected", value |-> reason])
          /\ rpc' = "handling"
     ELSE UNCHANGED <<ctrl, trigger, settled, rpc>>
  /\ UNCHANGED <<reason, timer, tvars, restIdle>>

\* the service answers
RestRespond ==
  /\ rpc = "inflight"
  /\ \E response \in HttpResponses :
       settled' = Some([kind |-> "resolved", value |-> response])
  /\ rpc' = "handling"
  /\ UNCHANGED <<signal, reason, timer, ctrl, trigger, tvars, restIdle>>

\* the connection fails: fetch rejects with a TypeError
RestNetworkError ==
  /\ rpc = "inflight"
  /\ settled' = Some([kind |-> "rejected", value |-> "TypeError"])
  /\ rpc' = "handling"
  /\ UNCHANGED <<signal, reason, timer, ctrl, trigger, tvars, restIdle>>

\* lines 172-189 and 85-89: fetch's continuation (a microtask, so no other
\* task runs between the settlement and it) returns the response or maps
\* the rejection, clears the timer, and scanFile settles its promise
RestSettle ==
  /\ rpc = "handling"
  /\ timer' = IF timer = "set" THEN "cleared" ELSE timer
  /\ promise' =
       Some(IF settled[1].kind = "resolved"
            THEN parseScanResponse(settled[1].value, "file.txt")
            ELSE [kind  |-> "rejected",
                  value |-> mapFetchRejection(settled[1].value, signal = "aborted")])
  /\ rpc' = "done"
  /\ UNCHANGED <<signal, reason, ctrl, settled, trigger, opened, closed, restIdle>>

NextRest ==
  \/ RestClose
  \/ RestCall
  \/ RestTimeout
  \/ RestSignal
  \/ RestRespond
  \/ RestNetworkError
  \/ RestSettle

\* the timer fires unless it is cleared, and a queued continuation runs
SpecRest ==
  /\ InitRest
  /\ [][NextRest]_vars
  /\ WF_vars(RestCall) /\ WF_vars(RestTimeout) /\ WF_vars(RestSettle)

\* ------------------------------------------------------------------------
\* REST scanStream(stream, 'file.txt', options)

\* the input streams of a scanStream call
StreamChoices == { f.data : f \in FileChoices } \cup
                 { Source(<< Bytes(0, 70000), Bytes(1, 70000), Bytes(2, 70000) >>, FALSE) }

\* scanStream was called with a stream and awaits streamToBuffer (line 99)
InitRestStream ==
  /\ signal \in {"none", "armed"}
  /\ reason \in (IF signal = "none" THEN {"none"} ELSE SignalReasons)
  /\ rpc = "reading" /\ timer = "none" /\ ctrl = Null
  /\ settled = Null /\ trigger = "none"
  /\ rsrc \in StreamChoices
  /\ collected = << >> /\ body = Null /\ scans = << >>
  /\ IdleTransport
  /\ files = << >> /\ chunks = << >>
  /\ cpc = "init" /\ resolveNext = "null" /\ yielded = 0
  /\ delivered = << >> /\ raised = Null
  /\ results = << >> /\ done = FALSE /\ error = Null /\ firstError = Null
  /\ spc = "idle" /\ fileIdx = 0 /\ sgen = GenInit(Source(<< >>, FALSE), CHUNK_SIZE)
  /\ prevChunk = Null /\ isFirst = TRUE /\ wire = << >>
  /\ endCalls = 0 /\ cancelCalls = 0
  /\ endEmitted = FALSE /\ errorEmitted = FALSE /\ emitted = << >>
  /\ IdleChunk

\* streamToBuffer (stream.ts): the stream delivers its next chunk, which is
\* pushed onto chunks
RestStreamRead ==
  /\ rpc = "reading"
  /\ rsrc.frags # << >>
  /\ collected' = Append(collected, Head(rsrc.frags))
  /\ rsrc' = [rsrc EXCEPT !.frags = Tail(rsrc.frags)]
  /\ UNCHANGED <<signal, reason, rpc, timer, ctrl, settled, trigger, body, scans,
                 tvars, grpcIdle>>

\* the stream fails: streamToBuffer rejects and the catch clause of
\* scanStream (lines 115-117) wraps the failure
RestStreamReadFail ==
  /\ rpc = "reading"
  /\ rsrc.frags = << >> /\ rsrc.fails
  /\ promise' = Some([kind |-> "rejected", value |-> ConnectionFailure(SourceError.code)])
  /\ rpc' = "done"
  /\ UNCHANGED <<signal, reason, timer, ctrl, settled, trigger, bvars,
                 opened, closed, grpcIdle>>

\* the stream ends: streamToBuffer resolves with Buffer.concat(chunks) and
\* scanStream (lines 101-112) hands that buffer to this.fetch as the body
RestStreamCall ==
  /\ rpc = "reading"
  /\ rsrc.frags = << >> /\ ~rsrc.fails
  /\ body' = Some(BufferConcat(collected))
  /\ Fetch
  /\ UNCHANGED <<signal, reason, rsrc, collected, scans, closed, promise, grpcIdle>>

NextRestStream ==
  \/ RestStreamRead
  \/ RestStreamReadFail
  \/ RestStreamCall
  \/ RestTimeout
  \/ RestSignal
  \/ RestRespond
  \/ RestNetworkError
  \/ RestSettle

SpecRestStream == InitRestStream /\ [][NextRestStream]_vars

\* ------------------------------------------------------------------------
\* REST scanMultiple(files)

RestFileChoices == { f \in FileChoices : f.filename \in {"a.txt", "b.bin"} }

\* what a scanFile call may settle with: a parsed response, or the mapped
\* failure of the request
ScanFileOutcomes(filename) ==
  { parseScanResponse(r, filename) : r \in HttpResponses } \cup
  { [kind |-> "rejected", value |-> mapFetchRejection(e, FALSE)] :
      e \in {"TypeError", "AbortError"} }

\* a variant of line 122 that starts the first scan only
StartedScans_firstOnly(fs) == [k \in 1..(IF Len(fs) > 0 THEN 1 ELSE 0) |-> Null]

\* line 122: files.map starts one scanFile per file; each promise is pending
StartedScans(fs) == [k \in 1..Len(fs) |-> Null]

\* line 124: Promise.allSettled(promises) resolves
AllSettled(ss) == \A k \in DOMAIN ss : ss[k] # Null

\* a slip in line 133: the failure's message is left out
YieldOf_noMessage(outcome) ==
  IF outcome.kind = "resolved"
  THEN outcome.value
  ELSE [status |-> "ERROR", message |-> "", scanTime |-> 0, filename |-> Null,
        isInfected |-> FALSE]

\* lines 127-137: the value yielded for a settled scan
YieldOf(outcome) ==
  IF outcome.kind = "resolved"
  THEN outcome.value
  ELSE [status |-> "ERROR", message |-> outcome.value.message, scanTime |-> 0,
        filename |-> Null, isInfected |-> FALSE]

\* scanMultiple(files) before the first next() on its result sequence
InitRestMulti ==
  /\ files \in SeqsUpTo(RestFileChoices, MaxFiles)
  /\ chunks = << >> /\ signal = "none"
  /\ cpc = "init" /\ resolveNext = "null" /\ yielded = 0
  /\ delivered = << >> /\ raised = Null
  /\ results = << >> /\ done = FALSE /\ error = Null /\ firstError = Null
  /\ spc = "idle" /\ fileIdx = 0 /\ sgen = GenInit(Source(<< >>, FALSE), CHUNK_SIZE)
  /\ prevChunk = Null /\ isFirst = TRUE /\ wire = << >>
  /\ endCalls = 0 /\ cancelCalls = 0
  /\ endEmitted = FALSE /\ errorEmitted = FALSE /\ emitted = << >>
  /\ IdleChunk
  /\ IdleTransport /\ IdleRest

multiIdle == <<files, chunks, signal, resolveNext, raised, stateVars, senderVars,
               callVars, remoteVars, cvars, tvars, rpc, timer, ctrl, reason, settled,
               trigger, rsrc, collected, body>>

\* lines 122-124: the first next() starts every scan and awaits them all
RestMultiStart ==
  /\ cpc = "init"
  /\ scans' = StartedScans(files)
  /\ cpc' = "awaiting"
  /\ UNCHANGED <<yielded, delivered, multiIdle>>

\* one of the scanFile calls settles
RestScanSettles ==
  /\ cpc = "awaiting"
  /\ \E k \in DOMAIN scans :
       /\ scans[k] = Null
       /\ \E outcome \in ScanFileOutcomes(files[k].filename) :
            scans' = [scans EXCEPT ![k] = Some(outcome)]
  /\ UNCHANGED <<cpc, yielded, delivered, multiIdle>>

\* lines 124-138: allSettled has resolved; the loop yields the next result,
\* or the result sequence returns
RestMultiIterate ==
  /\ cpc \in {"awaiting", "yielded"}
  /\ AllSettled(scans)
  /\ IF yielded < Len(scans)
     THEN /\ delivered' = Append(delivered, YieldOf(scans[yielded + 1][1]))
          /\ yielded' = yielded + 1
          /\ cpc' = "yielded"
     ELSE /\ cpc' = "returned"
          /\ UNCHANGED <<yielded, delivered>>
  /\ UNCHANGED <<scans, multiIdle>>

NextRestMulti ==
  \/ RestMultiStart
  \/ RestScanSettles
  \/ RestMultiIterate

SpecRestMulti == InitRestMulti /\ [][NextRestMulti]_vars

\* ------------------------------------------------------------------------
\* Properties of chunkStream (checked under SpecChunk)
\* ------------------------------------------------------------------------
ChunkDone == gen.pc = "done"
ChunkTotal == TotalLen(input.source.frags)
FrameSizes == [i \in 1..Len(frames) |-> BufLen(frames[i])]

\* C1 (round trip): when chunkStream has returned for a frame size F > 0,
\* the concatenation of the frames it yielded equals the concatenation of
\* the input fragments, byte for byte and in order.
C1_RoundTrip ==
  (ChunkDone /\ input.chunkSize > 0)
    => BufferConcat(frames) = BufferConcat(input.source.frags)

\* a finished run over fragments of two byte values, one of them empty,
\* that were re-segmented into several frames
C1_Witness ==
  /\ ChunkDone
  /\ input.chunkSize = 2
  /\ input.source.frags = << <<  <<0, 1>>, <<1, 2>> >>, << >>, Bytes(0, 1) >>
  /\ Len(frames) = 2

\* C2 (frame size): for F > 0 every frame yielded so far has length in
\* (0, F], and every frame that is not the last one yielded has length
\* exactly F.
C2_FrameSize ==
  input.chunkSize > 0 =>
    /\ \A i \in 1..Len(frames) :
         BufLen(frames[i]) > 0 /\ BufLen(frames[i]) <= input.chunkSize
    /\ \A i \in 1..(Len(frames) - 1) :
         BufLen(frames[i]) = input.chunkSize

\* a finished run whose last frame is short, after two full ones
C2_Witness ==
  /\ ChunkDone
  /\ input.chunkSize = 2
  /\ FrameSizes = <<2, 2, 1>>

\* C3 (frame count): when chunkStream has returned for F > 0 it has yielded
\* ceil(T / F) frames, T the total input length; fragments of 70000, 10000
\* and 50000 bytes with F = 65536 give frames of 65536 and 64464 bytes, and
\* one 150 KB fragment with F = 64 KB gives three frames.
C3_FrameCount ==
  (ChunkDone /\ input.chunkSize > 0) =>
    /\ Len(frames) = CeilDiv(ChunkTotal, input.chunkSize)
    /\ (/\ input.chunkSize = 65536
        /\ input.source.frags = <<Bytes(0, 70000), Bytes(1, 10000), Bytes(0, 50000)>>)
         => FrameSizes = <<65536, 64464>>
    /\ (/\ input.chunkSize = 64 * 1024
        /\ input.source.frags = <<Bytes(1, 150 * 1024)>>)
         => Len(frames) = 3

\* the finished run over the fragments 70000, 10000, 50000 with F = 65536
C3_Witness ==
  /\ ChunkDone
  /\ input.chunkSize = 65536
  /\ input.source.frags = <<Bytes(0, 70000), Bytes(1, 10000), Bytes(0, 50000)>>
  /\ Len(frames) = 2

\* C4 (eager rejection): a run with F <= 0 never yields a frame and never
\* returns normally.
C4_RejectsNonPositive ==
  input.chunkSize <= 0 => (frames = << >> /\ gen.pc # "done")

\* ------------------------------------------------------------------------
\* Properties of sendStreamChunks and scanMultiple (checked under Spec)
\* ------------------------------------------------------------------------
IsPrefix(a, b) == Len(a) <= Len(b) /\ SubSeq(b, 1, Len(a)) = a

FileIds == 1..Len(files)

\* the frames written for file k, in the order they were written
FramesOf(k) ==
  LET own(w) == w.file = k
      ws == SelectSeq(wire, own)
  IN [j \in 1..Len(ws) |-> ws[j].frame]

\* the frames chunkStream yields for file k
ChunksOf(k) == chunks[k]

\* sendStreamChunks has returned for file k
FileSent(k) == k < fileIdx \/ (k = fileIdx /\ spc = "ended")

Named(fs) == { j \in 1..Len(fs) : fs[j].filename # "" }
Terminal(fs) == { j \in 1..Len(fs) : fs[j].isLast }

\* C5 as stated (labeling): every file that was sent and yields at least one
\* chunk has exactly one frame with a non-empty filename, its first, and
\* exactly one frame with isLast = true, its last.
C5_Labeling ==
  \A k \in FileIds :
    (FileSent(k) /\ ChunksOf(k) # << >>) =>
      LET fs == FramesOf(k)
      IN /\ fs # << >>
         /\ Named(fs) = {1}
         /\ Terminal(fs) = {Len(fs)}

\* C5 as amended: every file that was sent and yields at least one chunk
\* carries its filename, as given, on its first frame and the empty string
\* on every other frame, so exactly one frame (the first) has a non-empty
\* filename when the file's filename is non-empty and none has otherwise;
\* exactly one frame has isLast = true, the last.
C5_LabelingNamed ==
  \A k \in FileIds :
    (FileSent(k) /\ ChunksOf(k) # << >>) =>
      LET fs == FramesOf(k)
      IN /\ fs # << >>
         /\ \A j \in 1..Len(fs) :
              fs[j].filename = IF j = 1 THEN files[k].filename ELSE ""
         /\ files[k].filename # "" => Named(fs) = {1}
         /\ files[k].filename = "" => Named(fs) = {}
         /\ Terminal(fs) = {Len(fs)}

\* a three-frame file followed by a single-frame file, both sent: the
\* single frame carries both the filename and isLast
C5_Witness ==
  /\ Len(files) = 2
  /\ FileSent(2)
  /\ Len(FramesOf(1)) = 3
  /\ Len(FramesOf(2)) = 1
  /\ FramesOf(2)[1].filename # "" /\ FramesOf(2)[1].isLast

\* C6 (empty file): a file without bytes makes chunkStream yield no frame
\* and sendStreamChunks write no frame, at any time.
C6_EmptyFile ==
  \A k \in FileIds :
    (TotalLen(files[k].data.frags) = 0 /\ ~files[k].data.fails) =>
      /\ ChunksOf(k) = << >>
      /\ FramesOf(k) = << >>

\* an empty file was sent before a non-empty one, and the call was ended
\* with only the second file's frame on the wire
C6_Witness ==
  /\ Len(files) = 2
  /\ TotalLen(files[1].data.frags) = 0 /\ ~files[1].data.fails
  /\ spc = "ended"
  /\ Len(wire) = 1 /\ wire[1].file = 2

\* the writes scanMultiple owes the exchange: every file's frames, file by
\* file in input order, each file's frames in chunk order
RECURSIVE ExpectedFrom(_)
ExpectedFrom(k) ==
  IF k > Len(files) THEN << >>
  ELSE LET cs == ChunksOf(k)
       IN [j \in 1..Len(cs) |-> <<k, cs[j]>>] \o ExpectedFrom(k + 1)

WirePayloads == [i \in 1..Len(wire) |-> <<wire[i].file, wire[i].frame.chunk>>]

\* C7 (frame order): the writes so far are, in order, an initial part of the
\* files' frames taken file by file in input order and chunk by chunk, and
\* they are all of them once the call has been ended.
C7_FrameOrder ==
  LET expected == ExpectedFrom(1)
  IN /\ IsPrefix(WirePayloads, expected)
     /\ spc = "ended" => WirePayloads = expected

\* a three-frame file and a one-frame file were written completely
C7_Witness ==
  /\ spc = "ended"
  /\ Len(files) = 2
  /\ Len(wire) = 4
  /\ wire[3].file = 1 /\ wire[4].file = 2

\* C8 (delivery order): the values delivered so far are the first yielded
\* responses the remote side emitted, converted, in emission order; yielded
\* never exceeds the number of buffered results; and when the result
\* sequence returns, every emitted response has been delivered.
C8_DeliveryOrder ==
  /\ yielded <= Len(results)
  /\ Len(delivered) = yielded
  /\ \A i \in 1..Len(delivered) : delivered[i] = toScanResult(emitted[i])
  /\ cpc = "returned" => Len(delivered) = Len(emitted)

\* the second file's result arrived first and was delivered first, after
\* both results had been buffered
C8_Witness ==
  /\ cpc = "returned"
  /\ Len(files) = 2 /\ files[1].filename = "a.txt" /\ files[2].filename = "b.bin"
  /\ Len(delivered) = 2
  /\ delivered[1].filename = Some("b.bin")
  /\ delivered[2].filename = Some("a.txt")

\* C9 (drain before raise): the step in which the result sequence throws
\* leaves no buffered result undelivered, and no step removes or changes a
\* buffered result.
C9_DrainBeforeRaise ==
  [][/\ (cpc # "threw" /\ cpc' = "threw") =>
          (raised' # Null /\ delivered' = results')
     /\ IsPrefix(results, results')]_vars

\* a failure was raised after two buffered results had been delivered
C9_Witness ==
  /\ cpc = "threw"
  /\ raised # Null
  /\ Len(delivered) = 2
  /\ delivered = results

\* C10 (first failure wins): the failure the result sequence throws is the
\* first failure that was recorded.
C10_FirstFailureWins ==
  cpc = "threw" => raised = firstError

\* C11 (end of input): call.end() is invoked at most once; the step that
\* invokes it leaves the submission task ended with every frame of every
\* file written; no frame is written after it; and a submission task that
\* failed has cancelled the call and never ends it.
C11_EndOfInput ==
  [][/\ endCalls' <= 1
     /\ endCalls' > endCalls =>
          (spc' = "ended" /\ WirePayloads' = ExpectedFrom(1))
     /\ endCalls >= 1 => wire' = wire
     /\ spc' = "failed" => (cancelCalls' >= 1 /\ endCalls' = 0)]_vars

\* the call was ended after two files' frames had been written
C11_Witness ==
  /\ endCalls = 1
  /\ Len(files) = 2
  /\ Len(wire) >= 2
  /\ wire[Len(wire)].file = 2 /\ wire[Len(wire)].frame.isLast

\* the second file's byte source failed: the call was cancelled, not ended
C11_WitnessFailed ==
  /\ spc = "failed" /\ fileIdx = 2
  /\ cancelCalls = 1 /\ endCalls = 0

\* C12 (suspension and wake-up): the consumer is suspended only while no
\* buffered result is undelivered and the exchange has neither ended nor
\* failed, with its resolver registered; a continuation is queued only for
\* a promise that was settled, once per suspension; and once the exchange
\* has ended or failed the result sequence returns or throws.
C12_WakeUp ==
  /\ [](cpc = "waiting" =>
          (resolveNext = "pending" /\ ~done /\ yielded = Len(results)))
  /\ [](ContinuationQueued => resolveNext = "settled")
  /\ [][resolveNext' = "settled" /\ resolveNext # "settled" =>
          (cpc = "waiting" /\ ContinuationQueued')]_vars
  /\ (done ~> cpc \in {"returned", "threw"})

\* a suspended consumer was woken by the end of the exchange
C12_Witness ==
  /\ cpc = "ready"
  /\ endEmitted /\ done
  /\ yielded = Len(results)

\* C13 (cancellation stops submission): once the call has been cancelled
\* (the external signal fired or the submission task cancelled it) or the
\* exchange has reported a failure, no further frame is written to it.
C13_CancelStopsFrames ==
  [][(cancelCalls >= 1 \/ errorEmitted) => wire' = wire]_vars

\* the exchange is over: the remote side ended or failed it, or this side
\* invoked call.end() or call.cancel()
Released == endEmitted \/ errorEmitted \/ endCalls + cancelCalls >= 1

\* C15 (no leaked exchange): whenever the result sequence has been left,
\* by returning, by throwing or by the consumer abandoning it, the exchange
\* has ended or failed, or call.end() or call.cancel() has been invoked.
C15_NoLeak ==
  cpc \in {"returned", "threw", "abandoned"} => Released

\* C16 (released once): call.end() and call.cancel() are together invoked
\* at most once on the call of one operation.
C16_ReleasedOnce ==
  endCalls + cancelCalls <= 1

\* ------------------------------------------------------------------------
\* Properties of scanStream (checked under SpecStream)
\* ------------------------------------------------------------------------
\* C14 (release on every exit path): whenever the promise scanStream
\* returned has settled, call.end() or call.cancel() has been invoked.
C14_StreamReleased ==
  promise # Null => endCalls + cancelCalls >= 1

Rejected(p) == p # Null /\ p[1].kind = "rejected"

\* C21 (settles once): the promise scanStream returned never changes once
\* settled; the step in which sending fails cancels the call and, if the
\* promise is still pending, rejects it with the failure of the source.
C21_SettlesOnce ==
  [][/\ promise # Null => promise' = promise
     /\ (spc' = "failed" /\ spc # "failed") =>
          /\ cancelCalls' = cancelCalls + 1
          /\ promise = Null =>
               promise' = Some([kind |-> "rejected", value |-> SourceError])]_vars

\* sending failed and rejected the promise; the callback arriving afterwards
\* with an error left the outcome as it was
C21_Witness ==
  /\ spc = "failed" /\ errorEmitted
  /\ promise = Some([kind |-> "rejected", value |-> SourceError])
  /\ cancelCalls >= 1

\* the classification of gRPC status codes, as a table
Classified(code) ==
  CASE code = GRPC_INVALID_ARGUMENT ->
         [class |-> "ClamAVValidationError", code |-> "VALIDATION_ERROR",
          statusCode |-> Some(code), cause |-> Some(code)]
    [] code = GRPC_INTERNAL ->
         [class |-> "ClamAVServiceError", code |-> "SERVICE_ERROR",
          statusCode |-> Some(code), cause |-> Some(code)]
    [] code = GRPC_DEADLINE_EXCEEDED ->
         [class |-> "ClamAVTimeoutError", code |-> "TIMEOUT",
          statusCode |-> Some(code), cause |-> Some(code)]
    [] code = GRPC_UNAVAILABLE ->
         [class |-> "ClamAVConnectionError", code |-> "CONNECTION_ERROR",
          statusCode |-> Null, cause |-> Some(code)]
    [] code = GRPC_CANCELLED ->
         [class |-> "ClamAVError", code |-> "CANCELLED",
          statusCode |-> Some(code), cause |-> Some(code)]
    [] OTHER ->
         [class |-> "ClamAVError", code |-> "GRPC_ERROR",
          statusCode |-> Some(code), cause |-> Some(code)]

\* C22 (classification): the step in which the callback reports an error
\* while the promise is pending rejects it with a failure that retains the
\* reported error as its cause and is classified from its status code:
\* INVALID_ARGUMENT as Validation, INTERNAL as Service, DEADLINE_EXCEEDED
\* as Timeout, UNAVAILABLE as Connection, CANCELLED with code CANCELLED,
\* any other status as ClamAVError with code GRPC_ERROR.
C22_Classification ==
  [][(errorEmitted' /\ ~errorEmitted /\ promise = Null) =>
        /\ Rejected(promise')
        /\ promise'[1].value.cause # Null
        /\ promise'[1].value.cause[1] \in StreamErrorCodes
        /\ promise'[1].value = Classified(promise'[1].value.cause[1])]_vars

\* a call rejected as a connection failure that retains the UNAVAILABLE
\* error as its cause
C22_Witness ==
  /\ errorEmitted /\ Rejected(promise)
  /\ promise[1].value.class = "ClamAVConnectionError"
  /\ promise[1].value.cause = Some(GRPC_UNAVAILABLE)

\* the payloads of a sequence of frames
Payloads(fs) == [j \in 1..Len(fs) |-> fs[j].chunk]

\* C27 (source failure): for a file whose byte source fails, chunkStream
\* yields full frames only (nothing is made of the bytes pending at the
\* failure), fewer frames are written than were yielded (the held one is
\* never written) and none of them has isLast = true; the step in which the
\* failure reaches scanMultiple writes nothing and records that failure.
C27_SourceFailure ==
  /\ [](\A k \in FileIds :
          files[k].data.fails =>
            /\ \A j \in 1..Len(ChunksOf(k)) : BufLen(ChunksOf(k)[j]) = CHUNK_SIZE
            /\ Terminal(FramesOf(k)) = {}
            /\ ChunksOf(k) # << >> => Len(FramesOf(k)) < Len(ChunksOf(k))
            /\ ~FileSent(k))
  /\ [][(spc' = "failed" /\ spc # "failed") =>
          /\ files[fileIdx].data.fails
          /\ wire' = wire
          /\ error' = Some(SourceError)]_vars

\* the source of the file being sent failed with bytes pending and one
\* frame held back; nothing was written for the file
C27_Witness ==
  /\ spc = "failed"
  /\ files[fileIdx].data.fails
  /\ sgen.pendingBytes > 0
  /\ prevChunk # Null
  /\ Len(ChunksOf(fileIdx)) = 1
  /\ FramesOf(fileIdx) = << >>
  /\ error = Some(SourceError)

\* C28 (defer by one): while a file is being sent, the payloads written
\* for it are, in order and unmodified, the first frames chunkStream
\* yields for it, all written with isLast = false; the one frame held back
\* is the next frame after them, and nothing is held before the first
\* frame is produced; once the file is sent, the payloads written for it
\* are exactly the frames chunkStream yields for it.
C28_DeferByOne ==
  /\ (spc = "sending" /\ fileIdx \in FileIds) =>
       LET fs == FramesOf(fileIdx)
           cs == ChunksOf(fileIdx)
       IN /\ IsPrefix(Payloads(fs), cs)
          /\ \A j \in 1..Len(fs) : ~fs[j].isLast
          /\ prevChunk = Null => fs = << >>
          /\ prevChunk # Null =>
               /\ Len(fs) < Len(cs)
               /\ prevChunk = Some(cs[Len(fs) + 1])
  /\ \A k \in FileIds : FileSent(k) => Payloads(FramesOf(k)) = ChunksOf(k)

\* two frames of a three-frame file are written and the third is held
C28_Witness ==
  /\ spc = "sending" /\ fileIdx \in FileIds
  /\ Len(ChunksOf(fileIdx)) = 3
  /\ Len(FramesOf(fileIdx)) = 2
  /\ prevChunk = Some(ChunksOf(fileIdx)[3])

\* ------------------------------------------------------------------------
\* Properties of cancellation, timeout and close
\* ------------------------------------------------------------------------
\* C17 (cancellation pre-empts I/O): the step that starts an operation
\* whose signal is already aborted invokes no transport (no gRPC call is
\* opened, no fetch call is made) and writes no frame.
C17_PreemptsIO ==
  [][(cpc = "init" /\ rpc = "idle" /\ signal = "aborted") =>
        (opened' = opened /\ wire' = wire)]_vars

\* C18 (first trigger decides): a request aborted in flight by the timer
\* or by the caller's signal has its controller aborted and fails, with
\* the Timeout kind when the timer fired first and with the Cancelled kind
\* when the caller's signal fired first.
C18_FirstTriggerDecides ==
  (rpc = "done" /\ trigger \in {"timeout", "signal"}) =>
    /\ ctrl # Null
    /\ Rejected(promise)
    /\ trigger = "timeout" => promise[1].value.class = "ClamAVTimeoutError"
    /\ trigger = "signal" => promise[1].value.code = "CANCELLED"

\* the transport stays silent: globalThis.fetch settles only by being
\* aborted
Silent ==
  settled = Null \/ (settled[1].kind = "rejected" /\ settled[1].value = "AbortError")

\* C19 (timeout): a request without external signal that ends by the timer
\* rejects with ClamAVTimeoutError, and when the transport never responds
\* the request does end so.
C19_TimesOut ==
  /\ [](signal = "none" /\ rpc = "done" /\ trigger = "timeout" =>
          (Rejected(promise) /\ promise[1].value.class = "ClamAVTimeoutError"))
  /\ (signal = "none" /\ []Silent) =>
        <>(Rejected(promise) /\ promise[1].value.class = "ClamAVTimeoutError")

\* the timer fired on a silent transport and the call rejected with Timeout
C19_Witness ==
  /\ signal = "none" /\ rpc = "done" /\ timer = "fired"
  /\ Rejected(promise)
  /\ promise[1].value.class = "ClamAVTimeoutError"
  /\ promise[1].value.statusCode = Some(504)

\* C20 (scan after close): once close() has been called on the client, a
\* scan does not reach the transport and its promise rejects.
C20_ClosedFailsFast ==
  closed => (opened = 0 /\ (rpc = "done" => Rejected(promise)))

\* ------------------------------------------------------------------------
\* Properties of the REST client's results and failures

\* the response globalThis.fetch resolved with, if it did
Answered == settled # Null /\ settled[1].kind = "resolved"

C25_InfectedIffFound ==
  (rpc = "done" /\ promise # Null /\ promise[1].kind = "resolved") =>
    LET r == promise[1].value
    IN /\ r.isInfected <=> (r.status = "FOUND")
       /\ settled[1].value.status \in {Null, Some("")} =>
            (r.status = "ERROR" /\ ~r.isInfected)

\* the length of the input stream of a REST scanStream, and the number of
\* pieces it arrives in
InputLen == TotalLen(rsrc.frags) + TotalLen(collected)
InputPieces == Len(rsrc.frags) + Len(collected)

\* C26 (streaming): for an input stream longer than one frame that arrives
\* in several pieces, the client never holds the whole input, neither in
\* what it has collected nor in what it hands to the transport at once.
C26_NoFullBuffering ==
  (InputLen > CHUNK_SIZE /\ InputPieces >= 2) =>
    /\ TotalLen(collected) < InputLen
    /\ body # Null => BufLen(body[1]) < InputLen

\* the classes of errors.ts
ClamAVClasses ==
  { "ClamAVError", "ClamAVConnectionError", "ClamAVTimeoutError",
    "ClamAVValidationError", "ClamAVServiceError" }

\* the failure underneath a rejection that was not raised as a ClamAVError:
\* the stream's, fetch's, or response.json()'s
Underneath ==
  IF settled = Null THEN SourceError.code
  ELSE IF settled[1].kind = "rejected" THEN settled[1].value
  ELSE "SyntaxError"

C30_WitnessInput ==
  /\ rpc = "done" /\ opened = 0 /\ timer = "none"
  /\ Rejected(promise)
  /\ promise[1].value.cause = Some(SourceError.code)

\* C24 (one result per file): REST scanMultiple never throws; the values it
\* has yielded are, position by position, those of the first files: the
\* scan's result when the scan resolved, and otherwise a result with status
\* ERROR, isInfected false and the failure's message; when it returns it
\* has yielded one value per file.
C24_OnePerFile ==
  /\ raised = Null /\ cpc # "threw"
  /\ Len(delivered) <= Len(files)
  /\ cpc = "returned" => Len(delivered) = Len(files)
  /\ \A k \in 1..Len(delivered) :
       LET o == scans[k][1]
       IN IF o.kind = "resolved"
          THEN delivered[k] = o.value
          ELSE /\ delivered[k].status = "ERROR"
               /\ ~delivered[k].isInfected
               /\ delivered[k].message = o.value.message

\* the first file's scan failed and the second found a virus: both are
\* yielded, at their positions
C24_Witness ==
  /\ cpc = "returned" /\ Len(files) = 2 /\ Len(delivered) = 2
  /\ scans[1][1].kind = "rejected"
  /\ delivered[1].status = "ERROR"
  /\ delivered[1].message = "Failed to connect to ClamAV API"
  /\ delivered[2].status = "FOUND" /\ delivered[2].isInfected

\* C29 (all started, all settled): once REST scanMultiple runs, one scan
\* per file has been started; nothing is yielded before every scan has
\* settled; and when it returns, every file's result has been yielded,
\* whatever the other scans settled with.
C29_AllSettledFirst ==
  /\ cpc # "init" => Len(scans) = Len(files)
  /\ (delivered # << >> \/ cpc \in {"yielded", "returned"}) =>
       \A k \in DOMAIN scans : scans[k] # Null
  /\ cpc = "returned" => Len(delivered) = Len(scans)

\* the second scan has settled, with a failure, while the first is still
\* pending: nothing is yielded
C29_WitnessPending ==
  /\ cpc = "awaiting" /\ Len(files) = 2
  /\ scans[1] = Null /\ scans[2] # Null
  /\ scans[2][1].kind = "rejected"
  /\ delivered = << >>

\* the second scan failed and the first resolved: the first file's result
\* was yielded
C29_Witness ==
  /\ cpc \in {"yielded", "returned"} /\ Len(files) = 2
  /\ scans[2] # Null /\ scans[2][1].kind = "rejected"
  /\ delivered # << >> /\ delivered[1].status = "OK"

====
